---------------------------- MODULE Spec2Model ----------------------------
(***************************************************************************)
(* The move-decision engine of the light-cycle bot (class BotClient).      *)
(*                                                                         *)
(* Two clients live in the repository: src/unnamed/part_000, whose         *)
(* decideMove looks for the nearest opponent and then scores moves either  *)
(* for safety or for aggression, and                                       *)
(* src/src/client/client_sebastian_perilla.cpp, whose decideMove always    *)
(* scores for safety.  Everything else of the two classes is the same      *)
(* code, so one model carries both and the variable client says which one  *)
(* is running.                                                             *)
(***************************************************************************)
EXTENDS Integers, Sequences, FiniteSets

-----------------------------------------------------------------------------
(* Bounds of the model. *)

GridW == 3
GridH == 2
MaxOccupied == 3
MaxTicks == 2

-----------------------------------------------------------------------------
(* Grid Model and Direction Vocabulary (api.h / utils.h of the framework). *)

Cells == (0 .. GridW - 1) \X (0 .. GridH - 1)

\* Cells a flood fill can be asked about: the grid and the ring around it.
Halo == (-1 .. GridW) \X (-1 .. GridH)

Directions == <<"north", "east", "south", "west">>

getDirectionVector(d) ==
    CASE d = "north" -> <<0, -1>>
      [] d = "east"  -> <<1, 0>>
      [] d = "south" -> <<0, 1>>
      [] d = "west"  -> <<-1, 0>>

getDirectionValue(d) ==
    CASE d = "north" -> 0
      [] d = "east"  -> 1
      [] d = "south" -> 2
      [] d = "west"  -> 3

Plus(c, v) == <<c[1] + v[1], c[2] + v[2]>>

Abs(n) == IF n < 0 THEN -n ELSE n

isInsideGrid(c) == c[1] >= 0 /\ c[1] < GridW /\ c[2] >= 0 /\ c[2] < GridH

getGridCell(st, c) == st.grid[c]

-----------------------------------------------------------------------------
(* The players and the snapshots the connection can deliver. *)

\* The name the bot is started with, and the clients started before it.
Name == "sebastian_perilla"
Roster == <<"randomio1", "sebastian_perilla">>

\* The two BotClient classes of the repository.
Clients == {"part_000", "client_sebastian_perilla"}

NoHead == <<-1, -1>>

\* Player(): an empty name and a zero position.
DefaultPlayer == [name |-> "", position |-> <<0, 0>>]

Grids ==
    { [c \in Cells |-> IF c \in occ THEN 1 ELSE 0] :
        occ \in { s \in SUBSET Cells : Cardinality(s) <= MaxOccupied } }

EmptyGrid == [c \in Cells |-> 0]

Occupied(g) == { c \in Cells : g[c] # 0 }

\* The players present, in Roster order, each with its head on an occupied
\* cell of its own.
RECURSIVE RostersFrom(_, _)
RostersFrom(i, free) ==
    IF i > Len(Roster) THEN { <<>> }
    ELSE LET without == RostersFrom(i + 1, free)
             with == UNION { { <<[name |-> Roster[i], position |-> h]>> \o r :
                                 r \in RostersFrom(i + 1, free \ {h}) } :
                             h \in free }
         IN  without \cup with

Snapshots ==
    UNION { { [grid |-> g, players |-> r] : r \in RostersFrom(1, Occupied(g)) } :
            g \in Grids }

\* The snapshots of a game that has just begun: heads and no trail or wall.
OpeningSnapshots ==
    { s \in Snapshots : Cardinality(Occupied(s.grid)) = Len(s.players) }

\* What my_player can hold when a tick begins: the default player, or the
\* bot as an earlier snapshot placed it.
HeldPlayers ==
    {DefaultPlayer} \cup { [name |-> Name, position |-> c] : c \in Cells }

-----------------------------------------------------------------------------
(* Territory Estimator: calculateAccessibleArea. *)

Neighbours(c) == [i \in 1 .. 4 |-> Plus(c, getDirectionVector(Directions[i]))]

\* FloodSkips without the occupancy test.
FloodSkips_NoOccupancyTest(st, seen, current) ==
    current \in seen \/ ~isInsideGrid(current)

\* The test at the head of the loop body: the dequeued cell is skipped.
FloodSkips(st, seen, current) ==
    current \in seen \/ ~isInsideGrid(current) \/ getGridCell(st, current) # 0

\* One iteration of the while loop on a non-empty queue.
FloodStep_NeverMarks(st, f) ==
    LET current == Head(f.toVisit)
        rest == Tail(f.toVisit)
    IN  IF FloodSkips(st, f.visited, current)
        THEN [toVisit |-> rest, visited |-> f.visited, area |-> f.area]
        ELSE [toVisit |-> rest \o Neighbours(current),
              visited |-> f.visited,
              area |-> f.area + 1]

FloodStep(st, f) ==
    LET current == Head(f.toVisit)
        rest == Tail(f.toVisit)
    IN  IF FloodSkips(st, f.visited, current)
        THEN [toVisit |-> rest, visited |-> f.visited, area |-> f.area]
        ELSE [toVisit |-> rest \o Neighbours(current),
              visited |-> f.visited \cup {current},
              area |-> f.area + 1]

FloodStart(start) == [toVisit |-> <<start>>, visited |-> {}, area |-> 0]

RECURSIVE FloodLoop(_, _)
FloodLoop(st, f) ==
    IF f.toVisit = <<>> THEN f.area ELSE FloodLoop(st, FloodStep(st, f))

calculateAccessibleArea(st, start) == FloodLoop(st, FloodStart(start))

-----------------------------------------------------------------------------
(* Move Scorer / Selector. *)

\* is_valid_move with the occupancy test turned round.
is_valid_move_Occupied(st, me, d) ==
    LET new_pos == Plus(me.position, getDirectionVector(d))
    IN  isInsideGrid(new_pos) /\ getGridCell(st, new_pos) # 0

is_valid_move(st, me, d) ==
    LET new_pos == Plus(me.position, getDirectionVector(d))
    IN  isInsideGrid(new_pos) /\ getGridCell(st, new_pos) = 0

\* The lambda handed to std::sort: a goes before b.
ScoreGreater(a, b) == a.second > b.second

\* std::sort promises an ordering by the comparison and nothing about the
\* order of elements the comparison does not separate: every arrangement of
\* the candidates in which no element is followed by one that goes before it.
Arrangements(moves) ==
    { [i \in 1 .. Len(moves) |-> moves[p[i]]] :
        p \in { q \in [1 .. Len(moves) -> 1 .. Len(moves)] :
                  \A i, j \in 1 .. Len(moves) : i # j => q[i] # q[j] } }

stdSort(moves) ==
    { s \in Arrangements(moves) :
        \A i, j \in 1 .. Len(s) : i < j => ~ScoreGreater(s[j], s[i]) }

\* findBestMove with south as the fallback.
findBestMove_FallbackSouth(moves) ==
    IF moves = <<>> THEN {"south"}
    ELSE { s[1].first : s \in stdSort(moves) }

\* The directions findBestMove can return for a candidate list.
findBestMove(moves) ==
    IF moves = <<>> THEN {"north"}
    ELSE { s[1].first : s \in stdSort(moves) }

\* The loop of findSafeDirection over north, east, south, west.
SafeCandidate(st, me, d) ==
    IF is_valid_move(st, me, d)
    THEN <<[first |-> d,
            second |-> calculateAccessibleArea(
                           st, Plus(me.position, getDirectionVector(d)))]>>
    ELSE <<>>

findSafeDirection(st, me) ==
    SafeCandidate(st, me, "north") \o SafeCandidate(st, me, "east")
        \o SafeCandidate(st, me, "south") \o SafeCandidate(st, me, "west")

\* The loop of decideAggressiveMove; predictedHead is passed and never read.
AggressiveCandidate(st, me, target, d) ==
    LET new_pos == Plus(me.position, getDirectionVector(d))
    IN  IF is_valid_move(st, me, d)
        THEN LET distance == Abs(new_pos[1] - target[1]) + Abs(new_pos[2] - target[2])
                 area == calculateAccessibleArea(st, new_pos)
             IN  <<[first |-> d, second |-> area - distance]>>
        ELSE <<>>

\* decideAggressiveMove measuring the distance to the opponent's head.
decideAggressiveMove_TowardsHead(st, me, target, predictedHead) ==
    AggressiveCandidate(st, me, predictedHead, "north")
        \o AggressiveCandidate(st, me, predictedHead, "east")
        \o AggressiveCandidate(st, me, predictedHead, "south")
        \o AggressiveCandidate(st, me, predictedHead, "west")

decideAggressiveMove(st, me, target, predictedHead) ==
    AggressiveCandidate(st, me, target, "north")
        \o AggressiveCandidate(st, me, target, "east")
        \o AggressiveCandidate(st, me, target, "south")
        \o AggressiveCandidate(st, me, target, "west")

-----------------------------------------------------------------------------
(* Opponent Locator and Predictor. *)

Manhattan(a, b) == Abs(a[1] - b[1]) + Abs(a[2] - b[2])

\* The heads of the players other than the bot, in roster order.
OpponentHeads(st) ==
    LET others == SelectSeq(st.players, LAMBDA p : p.name # Name)
    IN  [i \in 1 .. Len(others) |-> others[i].position]

\* The first head at the least Manhattan distance from the bot, or NoHead.
findNearestOpponentHead(st, me) ==
    LET hs == OpponentHeads(st)
    IN  IF hs = <<>> THEN NoHead
        ELSE LET best == CHOOSE i \in 1 .. Len(hs) :
                            \A j \in 1 .. Len(hs) :
                                \/ Manhattan(hs[i], me.position) < Manhattan(hs[j], me.position)
                                \/ /\ Manhattan(hs[i], me.position) = Manhattan(hs[j], me.position)
                                   /\ i <= j
             IN  hs[best]

\* PredictStep with >= for >: the last of the largest areas wins.
PredictStep_LastWinsTies(st, opponentHead, acc, i) ==
    LET candidateMove == Plus(opponentHead, getDirectionVector(Directions[i]))
    IN  IF isInsideGrid(candidateMove) /\ getGridCell(st, candidateMove) = 0
        THEN LET area == calculateAccessibleArea(st, candidateMove)
             IN  IF area >= acc.maxArea
                 THEN [maxArea |-> area, bestMove |-> candidateMove]
                 ELSE acc
        ELSE acc

\* One turn of the loop of predictOpponentMove, for direction number i.
PredictStep(st, opponentHead, acc, i) ==
    LET candidateMove == Plus(opponentHead, getDirectionVector(Directions[i]))
    IN  IF isInsideGrid(candidateMove) /\ getGridCell(st, candidateMove) = 0
        THEN LET area == calculateAccessibleArea(st, candidateMove)
             IN  IF area > acc.maxArea
                 THEN [maxArea |-> area, bestMove |-> candidateMove]
                 ELSE acc
        ELSE acc

predictOpponentMove(st, opponentHead) ==
    LET a0 == [maxArea |-> 0, bestMove |-> opponentHead]
        a1 == PredictStep(st, opponentHead, a0, 1)
        a2 == PredictStep(st, opponentHead, a1, 2)
        a3 == PredictStep(st, opponentHead, a2, 3)
        a4 == PredictStep(st, opponentHead, a3, 4)
    IN  a4.bestMove

-----------------------------------------------------------------------------
(* Decision Driver. *)

\* decideMove of part_000 without its opponent branch.
decideMove_AlwaysSafety(cl, st, me) ==
    [mode |-> "safety", nearestHead |-> NoHead, target |-> NoHead,
     moves |-> findSafeDirection(st, me)]

\* What decideMove computes before findBestMove picks from the candidates.
decideMove(cl, st, me) ==
    IF cl = "client_sebastian_perilla"
    THEN [mode |-> "safety", nearestHead |-> NoHead, target |-> NoHead,
          moves |-> findSafeDirection(st, me)]
    ELSE LET nearestHead == findNearestOpponentHead(st, me)
         IN  IF nearestHead = NoHead
             THEN [mode |-> "safety", nearestHead |-> NoHead, target |-> NoHead,
                   moves |-> findSafeDirection(st, me)]
             ELSE LET predictedMove == predictOpponentMove(st, nearestHead)
                  IN  [mode |-> "aggression", nearestHead |-> nearestHead,
                       target |-> predictedMove,
                       moves |-> decideAggressiveMove(st, me, predictedMove, nearestHead)]

\* The loop of receiveGameState: the first player of the bot's name, or the
\* player held before when there is none.
FindSelf(st, me) ==
    LET mine == SelectSeq(st.players, LAMBDA p : p.name = Name)
    IN  IF mine = <<>> THEN me ELSE Head(mine)

-----------------------------------------------------------------------------
(* The state. *)

VARIABLES
    client,             \* which of the two BotClient classes runs
    active,             \* connection.isActive()
    pc,                 \* where run() stands: "loop", "received", "done"
    state,              \* BotClient::state
    my_player,          \* BotClient::my_player
    previousDirection,  \* BotClient::previousDirection
    resolved,           \* the last receiveGameState found the bot's name
    fetched,            \* calls of connection.receiveGameState() so far
    submitted,          \* calls of connection.sendMove() so far
    sent,               \* the direction last handed to connection.sendMove
    decision,           \* what decideMove computed on the tick underway
    flood               \* a calculateAccessibleArea call run step by step

vars == <<client, active, pc, state, my_player, previousDirection, resolved,
          fetched, submitted, sent, decision, flood>>

NoDecision == [mode |-> "none", nearestHead |-> NoHead, target |-> NoHead,
               moves |-> <<>>]

NoFlood == [pc |-> "idle", start |-> NoHead, toVisit |-> <<>>, visited |-> {},
            area |-> 0, pushed |-> 0, expanded |-> <<>>]

-----------------------------------------------------------------------------
(* run(): while (connection.isActive()) { receiveGameState(); sendMove(); } *)

\* BotClient(botName) returned: the connection is active, nothing received.
Init ==
    /\ client \in Clients
    /\ active = TRUE
    /\ pc = "loop"
    /\ state = [grid |-> EmptyGrid, players |-> <<>>]
    /\ my_player = DefaultPlayer
    /\ previousDirection = -1
    /\ resolved = FALSE
    /\ fetched = 0
    /\ submitted = 0
    /\ sent = "none"
    /\ decision = NoDecision
    /\ flood = NoFlood

\* receiveGameState() run without the loop test.
ReceiveGameState_IgnoresSession ==
    /\ pc = "loop"
    /\ fetched < MaxTicks
    /\ \E snapshot \in OpeningSnapshots :
        /\ state' = snapshot
        /\ my_player' = FindSelf(snapshot, my_player)
        /\ resolved' = (\E i \in 1 .. Len(snapshot.players) :
                            snapshot.players[i].name = Name)
    /\ fetched' = fetched + 1
    /\ decision' = NoDecision
    /\ pc' = "received"
    /\ UNCHANGED <<client, active, previousDirection, submitted, sent, flood>>

\* The loop test passes and receiveGameState() runs.  The session is followed
\* for MaxTicks ticks.
ReceiveGameState ==
    /\ pc = "loop"
    /\ active
    /\ fetched < MaxTicks
    /\ \E snapshot \in OpeningSnapshots :
        /\ state' = snapshot
        /\ my_player' = FindSelf(snapshot, my_player)
        /\ resolved' = (\E i \in 1 .. Len(snapshot.players) :
                            snapshot.players[i].name = Name)
    /\ fetched' = fetched + 1
    /\ decision' = NoDecision
    /\ pc' = "received"
    /\ UNCHANGED <<client, active, previousDirection, submitted, sent, flood>>

\* sendMove(): decide, remember the direction's code, submit.
SendMove ==
    /\ pc = "received"
    /\ decision' = decideMove(client, state, my_player)
    /\ \E move \in findBestMove(decision'.moves) :
        /\ previousDirection' = getDirectionValue(move)
        /\ sent' = move
    /\ submitted' = submitted + 1
    /\ pc' = "loop"
    /\ UNCHANGED <<client, active, state, my_player, resolved, fetched, flood>>

\* The loop test fails and run() returns.
RunReturns ==
    /\ pc = "loop"
    /\ ~active
    /\ pc' = "done"
    /\ UNCHANGED <<client, active, state, my_player, previousDirection,
                   resolved, fetched, submitted, sent, decision, flood>>

\* The server or the network ends the session; it stays ended.
SessionEnds ==
    /\ active
    /\ pc # "done"
    /\ active' = FALSE
    /\ UNCHANGED <<client, pc, state, my_player, previousDirection, resolved,
                   fetched, submitted, sent, decision, flood>>

Next == ReceiveGameState \/ SendMove \/ RunReturns \/ SessionEnds

Spec == Init /\ [][Next]_vars

-----------------------------------------------------------------------------
(* One tick on any snapshot: the state in which sendMove() is entered.     *)
(* previousDirection is written by sendMove and read by nothing, so the    *)
(* tick starts from its initial value.                                     *)

InitDecide ==
    /\ client \in Clients
    /\ active = TRUE
    /\ pc = "received"
    /\ state \in Snapshots
    /\ resolved = (\E i \in 1 .. Len(state.players) : state.players[i].name = Name)
    /\ my_player \in { FindSelf(state, held) : held \in HeldPlayers }
    /\ previousDirection = -1
    /\ fetched = 1
    /\ submitted = 0
    /\ sent = "none"
    /\ decision = NoDecision
    /\ flood = NoFlood

SpecDecide == InitDecide /\ [][SendMove]_vars

-----------------------------------------------------------------------------
(* calculateAccessibleArea(start) run one loop iteration at a time, on any *)
(* grid and from any cell of the grid or of the ring around it.            *)

InitFlood ==
    /\ client \in Clients
    /\ active = TRUE
    /\ pc = "received"
    /\ \E g \in Grids : state = [grid |-> g, players |-> <<>>]
    /\ my_player = DefaultPlayer
    /\ previousDirection = -1
    /\ resolved = FALSE
    /\ fetched = 1
    /\ submitted = 0
    /\ sent = "none"
    /\ decision = NoDecision
    /\ flood = NoFlood

\* The call: toVisit.push(start); area = 0.
FloodCall ==
    /\ flood.pc = "idle"
    /\ \E start \in Halo :
        flood' = [pc |-> "run", start |-> start,
                  toVisit |-> FloodStart(start).toVisit,
                  visited |-> FloodStart(start).visited,
                  area |-> FloodStart(start).area,
                  pushed |-> 1, expanded |-> <<>>]
    /\ UNCHANGED <<client, active, pc, state, my_player, previousDirection,
                   resolved, fetched, submitted, sent, decision>>

\* One turn of while (!toVisit.empty()).
FloodIterate ==
    /\ flood.pc = "run"
    /\ flood.toVisit # <<>>
    /\ LET f == FloodStep(state, [toVisit |-> flood.toVisit,
                                  visited |-> flood.visited,
                                  area |-> flood.area])
           current == Head(flood.toVisit)
           skipped == FloodSkips(state, flood.visited, current)
       IN  flood' = [flood EXCEPT
                        !.toVisit = f.toVisit,
                        !.visited = f.visited,
                        !.area = f.area,
                        !.pushed = IF skipped THEN @ ELSE @ + 4,
                        !.expanded = IF skipped THEN @ ELSE Append(@, current)]
    /\ UNCHANGED <<client, active, pc, state, my_player, previousDirection,
                   resolved, fetched, submitted, sent, decision>>

\* The queue is empty: return area.
FloodReturn ==
    /\ flood.pc = "run"
    /\ flood.toVisit = <<>>
    /\ flood' = [flood EXCEPT !.pc = "done"]
    /\ UNCHANGED <<client, active, pc, state, my_player, previousDirection,
                   resolved, fetched, submitted, sent, decision>>

NextFlood == FloodCall \/ FloodIterate \/ FloodReturn

\* The call runs on the calling thread: it takes its next step until it returns.
SpecFlood == InitFlood /\ [][NextFlood]_vars /\ WF_vars(NextFlood)

-----------------------------------------------------------------------------
(* What the properties are stated with: passable cells and their           *)
(* 4-connected components, defined without the queue.                      *)

Passable(st, c) == isInsideGrid(c) /\ st.grid[c] = 0

Adjacent(a, b) == Abs(a[1] - b[1]) + Abs(a[2] - b[2]) = 1

\* S grown by the passable cells next to its newest cells, until none is left.
RECURSIVE Grow(_, _, _)
Grow(st, S, newest) ==
    LET more == { c \in Cells \ S :
                    Passable(st, c) /\ \E d \in newest : Adjacent(c, d) }
    IN  IF more = {} THEN S ELSE Grow(st, S \cup more, more)

\* The passable cells joined to start by a path of passable cells.
Component(st, start) ==
    IF Passable(st, start) THEN Grow(st, {start}, {start}) ELSE {}

ReachableArea(st, start) == Cardinality(Component(st, start))

\* The cell a direction leads to from the head the engine holds.
Target(d) == Plus(my_player.position, getDirectionVector(d))

\* The directions, in north, east, south, west order, that lead to a passable cell.
LegalDirections == SelectSeq(Directions, LAMBDA d : Passable(state, Target(d)))

Enclosed == LegalDirections = <<>>

OthersPresent == \E i \in 1 .. Len(state.players) : state.players[i].name # Name

\* sendMove() has run on the snapshot held.
Submitted == pc = "loop" /\ submitted = fetched /\ submitted > 0

MaxScore(moves) ==
    CHOOSE m \in { moves[i].second : i \in 1 .. Len(moves) } :
        \A i \in 1 .. Len(moves) : moves[i].second <= m

\* The first candidate of the list that has the list's largest score.
FirstBest(moves) ==
    moves[CHOOSE i \in 1 .. Len(moves) :
            /\ moves[i].second = MaxScore(moves)
            /\ \A j \in 1 .. i - 1 : moves[j].second < MaxScore(moves)].first

-----------------------------------------------------------------------------
(* C1: when the snapshot of a tick holds no player of the bot's name, no   *)
(* move is decided and submitted from the head an earlier tick recorded.   *)
(* The code keeps my_player and runs sendMove as on any tick.              *)

C1_NoMoveFromStaleHead ==
    ~(Submitted /\ ~resolved /\ my_player.name = Name)

-----------------------------------------------------------------------------
(* C2, as claimed: decideMove scores for safety exactly when the roster    *)
(* holds no player other than the bot, and for aggression otherwise        *)
(* (stated of the ticks on which the bot was found in the snapshot).       *)

-----------------------------------------------------------------------------
(* C3: calculateAccessibleArea(start) returns the number of passable cells *)
(* of the 4-connected component of start, each counted once: 0 for a start *)
(* outside the grid or occupied, W*H on an empty grid.                     *)

C3_AreaIsComponentSize ==
    flood.pc = "done" =>
        /\ flood.area = ReachableArea(state, flood.start)
        /\ flood.visited = Component(state, flood.start)
        /\ flood.area = calculateAccessibleArea(state, flood.start)
        /\ ~Passable(state, flood.start) => flood.area = 0
        /\ (state.grid = EmptyGrid /\ isInsideGrid(flood.start)) =>
               flood.area = GridW * GridH

\* A fill that stopped at a wall: it counted some cells and left passable
\* cells of another component uncounted.
C3_Witness ==
    /\ flood.pc = "done"
    /\ flood.area >= 2
    /\ \E c \in Cells : Passable(state, c) /\ c \notin flood.visited

-----------------------------------------------------------------------------
(* C4: for a non-empty candidate list findBestMove returns a direction of  *)
(* the largest score, and among several of that score the one that comes   *)
(* first in north, east, south, west order (stated of the ticks on which   *)
(* the bot was found in the snapshot).  std::sort does not promise to keep *)
(* the order of candidates of equal score.                                 *)

C4_FirstOfTheBest ==
    (Submitted /\ resolved /\ decision.moves # <<>>) =>
        sent = FirstBest(decision.moves)

-----------------------------------------------------------------------------
(* C5: with no passable neighbour of the head, in safety mode and in       *)
(* aggression mode, the candidate list is empty and north is selected.     *)

C5_EnclosedGoesNorth ==
    (Submitted /\ Enclosed) =>
        /\ decision.mode \in {"safety", "aggression"}
        /\ decision.moves = <<>>
        /\ sent = "north"
        /\ previousDirection = getDirectionValue("north")

C5_Witness ==
    /\ Submitted
    /\ Enclosed
    /\ resolved
    /\ decision.mode = "aggression"
    /\ isInsideGrid(Target("south"))

-----------------------------------------------------------------------------
(* C6: in aggression mode the candidates are the passable directions, in   *)
(* order, and the score of each is the reachable area of its cell minus    *)
(* the Manhattan distance from that cell to the predicted next cell of the *)
(* opponent, with no other term.                                           *)

C6_Expected(predicted) ==
    [i \in 1 .. Len(LegalDirections) |->
        [first |-> LegalDirections[i],
         second |-> ReachableArea(state, Target(LegalDirections[i]))
                      - Manhattan(Target(LegalDirections[i]), predicted)]]

C6_AggressionScore ==
    (Submitted /\ decision.mode = "aggression") =>
        LET predicted == predictOpponentMove(state, decision.nearestHead)
        IN  /\ decision.target = predicted
            /\ decision.moves = C6_Expected(predicted)

\* The predicted cell is not the opponent's head, and scoring against the
\* head would have given another score.
C6_Witness ==
    /\ Submitted
    /\ decision.mode = "aggression"
    /\ decision.target # decision.nearestHead
    /\ \E i \in 1 .. Len(decision.moves) :
          Manhattan(Target(decision.moves[i].first), decision.target)
            # Manhattan(Target(decision.moves[i].first), decision.nearestHead)

-----------------------------------------------------------------------------
(* C7: predictOpponentMove returns the passable neighbour of the           *)
(* opponent's head with the largest reachable area, the first of them in   *)
(* north, east, south, west order, and the head itself exactly when no     *)
(* neighbour is passable.                                                  *)

C7_Open(h) == { i \in 1 .. 4 : Passable(state, Neighbours(h)[i]) }

\* The reachable areas of the four neighbours of h, -1 for an impassable one.
C7_Area(h, i) ==
    IF i \in C7_Open(h) THEN ReachableArea(state, Neighbours(h)[i]) ELSE -1

C7_Areas(h) == <<C7_Area(h, 1), C7_Area(h, 2), C7_Area(h, 3), C7_Area(h, 4)>>

C7_Prediction(h) ==
    LET a == C7_Areas(h)
    IN  IF C7_Open(h) = {} THEN h
        ELSE Neighbours(h)[CHOOSE i \in C7_Open(h) :
                /\ \A j \in C7_Open(h) : a[j] <= a[i]
                /\ \A j \in C7_Open(h) : j < i => a[j] < a[i]]

C7_PredictsBestNeighbour ==
    (Submitted /\ decision.mode = "aggression") =>
        /\ decision.target = C7_Prediction(decision.nearestHead)
        /\ decision.target = decision.nearestHead <=> C7_Open(decision.nearestHead) = {}

\* Two passable neighbours of the opponent's head tie for the largest area.
C7_Witness ==
    /\ Submitted
    /\ decision.mode = "aggression"
    /\ \E i, j \in C7_Open(decision.nearestHead) :
          /\ i < j
          /\ decision.target = Neighbours(decision.nearestHead)[i]
          /\ C7_Area(decision.nearestHead, j) = C7_Area(decision.nearestHead, i)

-----------------------------------------------------------------------------
(* C8: receiveGameState and sendMove alternate, the fetch first, one       *)
(* submit for each snapshot, previousDirection the code of the submitted   *)
(* move; run() returns only on an inactive session, and once the session   *)
(* has ended the tick underway is completed and nothing is fetched or      *)
(* submitted after it.                                                     *)

C8_Alternation ==
    /\ submitted <= fetched
    /\ fetched <= submitted + 1
    /\ pc = "received" <=> fetched = submitted + 1
    /\ (submitted > 0 /\ pc # "received") =>
          /\ sent \in { Directions[i] : i \in 1 .. 4 }
          /\ previousDirection = getDirectionValue(sent)
    /\ submitted = 0 => previousDirection = -1 /\ sent = "none"
    /\ pc = "done" => ~active

C8_Steps ==
    /\ fetched' # fetched => (fetched' = fetched + 1 /\ fetched = submitted /\ active)
    /\ submitted' # submitted =>
          (submitted' = submitted + 1 /\ fetched = submitted + 1
             /\ previousDirection' = getDirectionValue(sent'))
    /\ (~active /\ pc # "received") => (fetched' = fetched /\ submitted' = submitted)
    /\ (pc' = "done" /\ pc # "done") => ~active
    /\ pc = "done" => pc' = "done"

C8_DriverLoop == [](C8_Alternation) /\ [][C8_Steps]_vars

\* The session ended after MaxTicks ticks were completed, and run() returned.
C8_Witness ==
    /\ pc = "done"
    /\ submitted = MaxTicks
    /\ fetched = MaxTicks

-----------------------------------------------------------------------------
(* C9: the flood fill ends with an empty queue; no cell is marked and      *)
(* expanded twice, and at most 4*W*H + 1 cells are ever enqueued.          *)

NoRepeat(seq) == \A i, j \in 1 .. Len(seq) : i # j => seq[i] # seq[j]

C9_Bounded ==
    /\ NoRepeat(flood.expanded)
    /\ { flood.expanded[i] : i \in 1 .. Len(flood.expanded) } = flood.visited
    /\ flood.visited \subseteq Cells
    /\ flood.pushed = 4 * Len(flood.expanded) + (IF flood.pc = "idle" THEN 0 ELSE 1)
    /\ flood.pushed <= 4 * GridW * GridH + 1
    /\ Len(flood.toVisit) <= flood.pushed
    /\ flood.pc = "done" => flood.toVisit = <<>>

C9_FloodTerminates == [](C9_Bounded) /\ <>(flood.pc = "done")

\* The fill of an empty grid: every cell expanded, the bound reached.
C9_Witness ==
    /\ flood.pc = "done"
    /\ flood.pushed = 4 * GridW * GridH + 1

-----------------------------------------------------------------------------
(* C10: when the bot was found in the snapshot and some neighbour of its   *)
(* head is passable, the direction decided leads to a passable cell, in    *)
(* safety mode and in aggression mode.                                     *)

C10_MoveIsLegal ==
    (Submitted /\ resolved /\ ~Enclosed) => Passable(state, Target(sent))

\* An aggression-mode tick with a legal and an illegal neighbour inside the grid.
C10_Witness ==
    /\ Submitted
    /\ resolved
    /\ decision.mode = "aggression"
    /\ ~Enclosed
    /\ \E d \in {"north", "east", "south", "west"} :
          isInsideGrid(Target(d)) /\ ~Passable(state, Target(d))
    /\ Passable(state, Target(sent))

=============================================================================
